---------------------------- MODULE Spec2Model ----------------------------
(***************************************************************************)
(* The LangGraph recipe-extraction workflow of src/langchain/main.py       *)
(* (class PdfRagApp): the WorkflowState record, the nine graph nodes, the  *)
(* conditional edge after validate, the retrying extraction chain, the     *)
(* recovery of the sum_minutes tool call from an agent trace, and the      *)
(* outer execute_langgraph_workflow / main boundary.                       *)
(*                                                                         *)
(* External collaborators (HTTP fetch, PDF parsing, the splitter, the      *)
(* embedding and chat models, Chroma, the agent executor) are inputs: each *)
(* action draws their outcome from a small set.                            *)
(***************************************************************************)
EXTENDS Integers, Sequences, FiniteSets, TLC

VARIABLES
    pc,             \* position of the program: main, the graph node about to run, END, returned
    api_key,        \* whether OPENAI_API_KEY is set in the environment
    state,          \* the WorkflowState threaded through the nodes
    result,         \* what execute_langgraph_workflow returned (Unset before it returns)
    executed,       \* history: the nodes that have run, in order
    route,          \* history: the label the conditional edge returned ("" before it)
    validate_failed, \* history: whether one of validate's external calls raised
    chain_facts,    \* history: the attempt outcomes the extraction chain met, if it ran
    final_writes,   \* history: how many times final_result was written
    chain_attempts, \* history: attempts of the extraction chain made in this run
    agent_calls,    \* history: invocations of the time agent in this run
    agent_facts,    \* history: what the time agent's result recorded, if it returned
    time_segments,  \* history: the segments a failed time retrieval fell back on (None otherwise)
    failures,       \* history: the nodes and the calls inside them in which an exception was raised
    live_indexes    \* retrieval calls that returned with the collection they created not deleted

vars == <<pc, api_key, state, result, executed, route, validate_failed, chain_facts,
          final_writes, chain_attempts, agent_calls, agent_facts, time_segments, failures,
          live_indexes>>

\* the history variables a single action writes each
history == <<route, validate_failed, chain_facts, agent_facts, time_segments, failures>>

---------------------------------------------------------------------------
(* Bounds of the model *)

\* the longest of the short documents, in text segments
MaxSegments == 2
\* the longest agent trace (intermediate_steps), in steps
MaxSteps == 1
\* how many attempt outcomes the environment holds ready for the extraction chain
MaxTries == 3

---------------------------------------------------------------------------
(* Optional values: Python's None and a present value *)

None == [some |-> FALSE]
Some(v) == [some |-> TRUE, val |-> v]

\* Python truthiness of an Optional[list]: None and [] are falsy
Truthy(x) == x.some /\ x.val # <<>>

RECURSIVE SumSeq(_)
SumSeq(s) == IF s = <<>> THEN 0 ELSE Head(s) + SumSeq(Tail(s))

\* Python's documents[:n]
Take(s, n) == SubSeq(s, 1, IF Len(s) < n THEN Len(s) ELSE n)

Reverse(s) == [i \in 1..Len(s) |-> s[Len(s) + 1 - i]]

---------------------------------------------------------------------------
(* Data types of recipe_types.py and the WorkflowState *)

\* the result caps of the two retrievals
EntityMaxResults == 5
TimeMaxResults == 3

\* a PDF is abstracted to the number of segments its text splits into: the
\* short documents, and one with more segments than either retrieval returns
Docs == 0..MaxSegments \cup {EntityMaxResults + 1}

\* the Documents the splitter produces from a text: segments 1..n in order
Segments(n) == [i \in 1..n |-> i]

PdfValidationResult(is_recipe, reason) == [is_recipe |-> is_recipe, reason |-> reason]

PdfContent(pdf_bytes, extracted_text) ==
    [pdf_bytes |-> pdf_bytes, extracted_text |-> extracted_text]

DocumentChunks(original_text, text_segments) ==
    [original_text |-> original_text, text_segments |-> text_segments]

ChunkEmbedding(chunk_text, vector_embedding) ==
    [chunk_text |-> chunk_text, vector_embedding |-> vector_embedding]

EmbeddedChunks(text_segments, chunk_embeddings) ==
    [text_segments |-> text_segments, chunk_embeddings |-> chunk_embeddings]

RecipeExtractionResult(extracted_recipe, total_cooking_minutes) ==
    [extracted_recipe |-> extracted_recipe,
     total_cooking_minutes |-> total_cooking_minutes]

PdfUrl == "https://kyushucgc.co.jp/recipe_pdf/202112/recipe05.pdf"

initial_state(pdf_url) ==
    [pdf_url |-> pdf_url,
     validation_result |-> None,
     pdf_content |-> None,
     document_chunks |-> None,
     embedded_chunks |-> None,
     recipe_relevant_segments |-> None,
     extracted_recipe |-> None,
     total_cooking_minutes |-> None,
     final_result |-> None,
     error |-> None]

\* str(e) of the AttributeError an attribute read on None raises
NoAttribute(name) ==
    IF name = "pdf_bytes"
    THEN "'NoneType' object has no attribute 'pdf_bytes'"
    ELSE "'NoneType' object has no attribute 'text_segments'"

\* what a node hands back to the engine: a new state, or an exception it let escape
\* (with the extraction-chain attempts and agent invocations it made, the
\* collections it left behind and the segments its time retrieval found)
Ret(s) ==
    [raised |-> FALSE, state |-> s, attempts |-> 0, agent_calls |-> 0, leaked |-> 0,
     found |-> None]
Raise(s) ==
    [raised |-> TRUE, state |-> s, attempts |-> 0, agent_calls |-> 0, leaked |-> 0,
     found |-> None]

---------------------------------------------------------------------------
(* cooking_tools.py and the agent trace *)

\* sum_minutes(minutes_list): 0.0 for an empty list, else the sum
sum_minutes(minutes_list) ==
    IF minutes_list = <<>> THEN 0 ELSE SumSeq(minutes_list)

ToolCall(name, args) == [name |-> name, args |-> args]
AIMessage(tool_calls) == [tool_calls |-> tool_calls]
AgentStep(tool, message_log, observation) ==
    [tool |-> tool, message_log |-> message_log, observation |-> observation]

\* the argument lists the model may pass to the tool
SampleMinutes == <<10, 15, 5>>
ArgLists == {<<>>, SampleMinutes}

\* the steps an agent trace is made of
AgentSteps ==
    \* a step of a tool the model made up
    {AgentStep("other_tool", <<AIMessage(<<ToolCall("other_tool", <<>>)>>)>>, 0)}
    \* sum_minutes steps without a recorded tool call
    \cup {AgentStep("sum_minutes", <<>>, 0),
          AgentStep("sum_minutes", <<AIMessage(<<>>)>>, 0)}
    \* sum_minutes steps with the call recorded, observation as the tool computes it
    \cup {AgentStep("sum_minutes", <<AIMessage(<<ToolCall("sum_minutes", a)>>)>>,
                    sum_minutes(a)) : a \in ArgLists}
    \* the call recorded after another call of the same message
    \cup {AgentStep("sum_minutes",
                    <<AIMessage(<<ToolCall("other_tool", <<>>),
                                  ToolCall("sum_minutes", <<5>>)>>)>>, 5)}
    \* two sum_minutes calls in one message, the first with no minutes
    \cup {AgentStep("sum_minutes",
                    <<AIMessage(<<ToolCall("sum_minutes", <<>>),
                                  ToolCall("sum_minutes", SampleMinutes)>>)>>, 0)}
    \* a recorded observation that disagrees with the arguments
    \cup {AgentStep("sum_minutes",
                    <<AIMessage(<<ToolCall("sum_minutes", SampleMinutes)>>)>>,
                    99)}

AgentTraces == UNION {[1..k -> AgentSteps] : k \in 0..MaxSteps}

\* the model's free-text total in its final answer, which the code never
\* reads: a value that no argument list of the traces sums to
AgentOutputs == {45}

\* what AgentExecutor.invoke returns with return_intermediate_steps=True
AgentResults ==
    {[output |-> o, intermediate_steps |-> tr] : o \in AgentOutputs, tr \in AgentTraces}

\* a variant that keeps scanning and so ends with the last sum_minutes call of
\* the message
RECURSIVE scan_tool_calls_last(_, _)
scan_tool_calls_last(tool_calls, i) ==
    IF i > Len(tool_calls) THEN None
    ELSE LET later == scan_tool_calls_last(tool_calls, i + 1)
         IN  IF later.some THEN later
             ELSE IF tool_calls[i].name = "sum_minutes"
                  THEN Some(sum_minutes(tool_calls[i].args))
                  ELSE None

\* the inner loop of _extract_sum_minutes_from_agent_result: the first tool call
\* named sum_minutes, executed on its args
RECURSIVE scan_tool_calls(_, _)
scan_tool_calls(tool_calls, i) ==
    IF i > Len(tool_calls) THEN None
    ELSE IF tool_calls[i].name = "sum_minutes"
         THEN Some(sum_minutes(tool_calls[i].args))
         ELSE scan_tool_calls(tool_calls, i + 1)

\* the outer loop over intermediate_steps
RECURSIVE scan_steps(_, _)
scan_steps(steps, i) ==
    IF i > Len(steps) THEN None
    ELSE LET step == steps[i]
             found == IF step.tool = "sum_minutes" /\ step.message_log # <<>>
                      THEN scan_tool_calls(step.message_log[1].tool_calls, 1)
                      ELSE None
         IN  IF found.some THEN found ELSE scan_steps(steps, i + 1)

\* a variant that trusts the observation recorded with the first sum_minutes step
extract_sum_minutes_from_observation(agent_result) ==
    LET steps == agent_result.intermediate_steps
        named == {i \in 1..Len(steps) : steps[i].tool = "sum_minutes"
                                          /\ scan_steps(<<steps[i]>>, 1).some}
    IN  IF named = {} THEN None
        ELSE Some(steps[CHOOSE i \in named : \A k \in named : i <= k].observation)

_extract_sum_minutes_from_agent_result(agent_result) ==
    scan_steps(agent_result.intermediate_steps, 1)

\* the outcomes of agent_executor.invoke: it raises, or returns a result
AgentRaised == [ok |-> FALSE]
AgentReturned(agent_result) == [ok |-> TRUE, result |-> agent_result]
AgentOutcomes == {AgentRaised} \cup {AgentReturned(r) : r \in AgentResults}

\* a variant that falls back on the model's own total when no tool call is found
extract_cooking_time_or_model_total(time_related_segments, agent) ==
    IF ~agent.ok THEN None
    ELSE LET total_minutes == _extract_sum_minutes_from_agent_result(agent.result)
         IN  IF total_minutes # None THEN total_minutes ELSE Some(agent.result.output)

\* extract_cooking_time_with_tools: any exception gives None, else the total
\* recovered from the trace (None when no tool call is found)
extract_cooking_time_with_tools(time_related_segments, agent) ==
    IF ~agent.ok THEN None
    ELSE LET total_minutes == _extract_sum_minutes_from_agent_result(agent.result)
         IN  IF total_minutes # None THEN total_minutes ELSE None

---------------------------------------------------------------------------
(* Embedding, retrieval and structured extraction *)

\* create_openai_embeddings(chunks): one embed_query per chunk inside a single
\* try; fail_at is the first chunk whose request raises (0: none does)
create_openai_embeddings(chunks, fail_at) ==
    IF fail_at \in 1..Len(chunks)
    THEN <<>>
    ELSE [i \in 1..Len(chunks) |-> ChunkEmbedding(chunks[i], chunks[i])]

\* the outcomes of one retrieval: an exception before the collection exists
\* (index_error), an exception once it exists, while the documents are added or
\* searched (search_error), or a search that ranks the documents one way or
\* the other
RagFailures == {"index_error", "search_error"}
RagOutcomes == RagFailures \cup {"ranked", "ranked_reverse"}

\* a variant whose handler returns the documents without slicing them
perform_rag_search_fallback_all(documents, max_results, rag) ==
    CASE rag = "ranked" ->
           [docs |-> Take(documents, max_results), leaked |-> FALSE]
      [] rag = "ranked_reverse" ->
           [docs |-> Take(Reverse(documents), max_results), leaked |-> FALSE]
      [] rag = "index_error" ->
           [docs |-> documents, leaked |-> FALSE]
      [] OTHER ->
           [docs |-> documents, leaked |-> TRUE]

\* perform_rag_search(documents, query, max_results): the documents returned
\* and whether the collection it created is still there when it returns
perform_rag_search(documents, max_results, rag) ==
    CASE rag = "ranked" ->
           [docs |-> Take(documents, max_results), leaked |-> FALSE]
      [] rag = "ranked_reverse" ->
           [docs |-> Take(Reverse(documents), max_results), leaked |-> FALSE]
      [] rag = "index_error" ->
           [docs |-> Take(documents, max_results), leaked |-> FALSE]
      [] OTHER ->
           [docs |-> Take(documents, max_results), leaked |-> TRUE]

\* the attempt cap of the retrying chain
stop_after_attempt == 2

\* the outcomes of one attempt of prompt | chat_model | fixing_parser
ChainOutcomes == {"ok", "OutputParserException", "other_error"}

\* the RecipeEntity attempt n parses to
RecipeOf(n) == [name |-> "recipe", attempt |-> n]

\* a variant whose cap is off by one: it retries while attempt <= stop_after_attempt
RECURSIVE chain_invoke_one_more(_, _)
chain_invoke_one_more(outcomes, attempt) ==
    CASE outcomes[attempt] = "ok" ->
           [recipe |-> Some(RecipeOf(attempt)), attempts |-> attempt]
      [] outcomes[attempt] = "OutputParserException" /\ attempt <= stop_after_attempt ->
           chain_invoke_one_more(outcomes, attempt + 1)
      [] OTHER ->
           [recipe |-> None, attempts |-> attempt]

\* a variant that retries on every exception, not only on a schema failure
RECURSIVE chain_invoke_retry_any(_, _)
chain_invoke_retry_any(outcomes, attempt) ==
    CASE outcomes[attempt] = "ok" ->
           [recipe |-> Some(RecipeOf(attempt)), attempts |-> attempt]
      [] outcomes[attempt] # "ok" /\ attempt < stop_after_attempt ->
           chain_invoke_retry_any(outcomes, attempt + 1)
      [] OTHER ->
           [recipe |-> None, attempts |-> attempt]

\* chain.invoke under with_retry(retry_if_exception_type=(OutputParserException,),
\* stop_after_attempt=2): the value returned (None: the exception is re-raised)
\* and the attempts made
RECURSIVE chain_invoke(_, _)
chain_invoke(outcomes, attempt) ==
    CASE outcomes[attempt] = "ok" ->
           [recipe |-> Some(RecipeOf(attempt)), attempts |-> attempt]
      [] outcomes[attempt] = "OutputParserException" /\ attempt < stop_after_attempt ->
           chain_invoke(outcomes, attempt + 1)
      [] OTHER ->
           [recipe |-> None, attempts |-> attempt]

\* generate_answer_with_agent: the recipe, or None on any exception
generate_answer_with_agent(relevant_chunks, outcomes) ==
    chain_invoke(outcomes, 1)

\* a variant that continues whenever a validation result is present
should_continue_if_validated(s) ==
    IF s.validation_result.some THEN "continue" ELSE "stop"

\* _should_continue_processing: a PdfValidationResult object is truthy
_should_continue_processing(s) ==
    LET validation_result == s.validation_result
    IN  IF validation_result.some /\ validation_result.val.is_recipe
        THEN "continue"
        ELSE "stop"

---------------------------------------------------------------------------
(* The graph nodes: each takes the state and the outcomes of its external    *)
(* calls and hands back Ret(new state)                                       *)

\* validate: the PDF fetch, the encoding or the chain raises, or the chain
\* returns a verdict
ValidateFailures == {"fetch_error", "encode_error", "extractor_error"}
ValidateOutcomes == ValidateFailures \cup {"is_recipe", "not_recipe"}

\* a variant whose handler records the error like the other nodes do and
\* leaves validation_result as it was
validate_node_recording_error(s, outcome) ==
    IF outcome \in {"is_recipe", "not_recipe"}
    THEN Ret([s EXCEPT !.validation_result =
                 Some(PdfValidationResult(outcome = "is_recipe", "llm"))])
    ELSE Ret([s EXCEPT !.error = Some(outcome)])

_validate_recipe_pdf_node(s, outcome) ==
    IF outcome \in {"is_recipe", "not_recipe"}
    THEN Ret([s EXCEPT !.validation_result =
                 Some(PdfValidationResult(outcome = "is_recipe", "llm"))])
    ELSE Ret([s EXCEPT !.validation_result =
                 Some(PdfValidationResult(TRUE, "fallback"))])

\* a variant that assembles the result from the state, as finalize does
not_recipe_finish_from_state(s) ==
    Ret([s EXCEPT !.final_result =
            Some(RecipeExtractionResult(s.extracted_recipe, s.total_cooking_minutes))])

_not_recipe_finish_node(s) ==
    Ret([s EXCEPT !.final_result = Some(RecipeExtractionResult(None, None))])

\* download: the fetch or the parse raises, or the PDF is read
DownloadFailed(e) == [ok |-> FALSE, error |-> e]
Downloaded(doc) == [ok |-> TRUE, doc |-> doc]
DownloadOutcomes ==
    {DownloadFailed("download_error"), DownloadFailed("parse_error")}
    \cup {Downloaded(d) : d \in Docs}

\* a variant that builds its return value afresh instead of spreading the
\* state it received
download_node_fresh_state(s, outcome) ==
    IF outcome.ok
    THEN Ret([initial_state(s.pdf_url)
                 EXCEPT !.pdf_content = Some(PdfContent(outcome.doc, outcome.doc))])
    ELSE Ret([initial_state(s.pdf_url) EXCEPT !.error = Some(outcome.error)])

\* a variant whose handler stores an empty document as a safe default
download_node_empty_content_on_error(s, outcome) ==
    IF outcome.ok
    THEN Ret([s EXCEPT !.pdf_content = Some(PdfContent(outcome.doc, outcome.doc))])
    ELSE Ret([s EXCEPT !.pdf_content = Some(PdfContent(0, 0)),
                       !.error = Some(outcome.error)])

_download_extract_pdf_node(s, outcome) ==
    IF outcome.ok
    THEN Ret([s EXCEPT !.pdf_content = Some(PdfContent(outcome.doc, outcome.doc))])
    ELSE Ret([s EXCEPT !.error = Some(outcome.error)])

\* split: state['pdf_content'].pdf_bytes raises on None; the splitter may raise
SplitOutcomes == {"ok", "split_error"}

\* a variant without the try: the failure leaves the node as an exception
split_chunks_node_raising(s, outcome) ==
    IF ~s.pdf_content.some \/ outcome # "ok"
    THEN Raise(s)
    ELSE Ret([s EXCEPT !.document_chunks =
                 Some(DocumentChunks(s.pdf_content.val.extracted_text,
                                     Segments(s.pdf_content.val.pdf_bytes)))])

_split_chunks_node(s, outcome) ==
    IF ~s.pdf_content.some
    THEN Ret([s EXCEPT !.error = Some(NoAttribute("pdf_bytes"))])
    ELSE IF outcome = "ok"
    THEN Ret([s EXCEPT !.document_chunks =
                 Some(DocumentChunks(s.pdf_content.val.extracted_text,
                                     Segments(s.pdf_content.val.pdf_bytes)))])
    ELSE Ret([s EXCEPT !.error = Some(outcome)])

\* embed: state['document_chunks'].text_segments raises on None
EmbedOutcomes == 0..MaxSegments

_create_embeddings_node(s, fail_at) ==
    IF ~s.document_chunks.some
    THEN Ret([s EXCEPT !.error = Some(NoAttribute("text_segments"))])
    ELSE LET text_segments == s.document_chunks.val.text_segments
             chunk_embeddings == create_openai_embeddings(text_segments, fail_at)
         IN  Ret([s EXCEPT !.embedded_chunks =
                     Some(EmbeddedChunks(text_segments, chunk_embeddings))])

\* a variant without the try: the attribute read on None leaves the node as an
\* exception
find_relevant_chunks_node_raising(s, rag) ==
    IF ~s.embedded_chunks.some
    THEN Raise(s)
    ELSE LET text_segments == s.embedded_chunks.val.text_segments
             found == perform_rag_search(text_segments, EntityMaxResults, rag)
         IN  [Ret([s EXCEPT !.recipe_relevant_segments = Some(found.docs)])
                 EXCEPT !.leaked = IF found.leaked THEN 1 ELSE 0]

\* retrieve_for_entity: state['embedded_chunks'].text_segments raises on None
_find_relevant_chunks_node(s, rag) ==
    IF ~s.embedded_chunks.some
    THEN Ret([s EXCEPT !.error = Some(NoAttribute("text_segments"))])
    ELSE LET text_segments == s.embedded_chunks.val.text_segments
             found == perform_rag_search(text_segments, EntityMaxResults, rag)
         IN  [Ret([s EXCEPT !.recipe_relevant_segments = Some(found.docs)])
                 EXCEPT !.leaked = IF found.leaked THEN 1 ELSE 0]

\* extract_entity: the extractor runs only on a truthy segment list
ChainOutcomeSeqs == [1..MaxTries -> ChainOutcomes]

\* a variant that tests the list against None only, so an empty list reaches
\* the extractor
extract_recipe_entity_node_unless_none(s, outcomes) ==
    LET relevant_segments == s.recipe_relevant_segments
    IN  IF relevant_segments.some
        THEN LET answer == generate_answer_with_agent(relevant_segments.val, outcomes)
             IN  [Ret([s EXCEPT !.extracted_recipe = answer.recipe])
                     EXCEPT !.attempts = answer.attempts]
        ELSE Ret([s EXCEPT !.extracted_recipe = None])

_extract_recipe_entity_node(s, outcomes) ==
    LET relevant_segments == s.recipe_relevant_segments
    IN  IF Truthy(relevant_segments)
        THEN LET answer == generate_answer_with_agent(relevant_segments.val, outcomes)
             IN  [Ret([s EXCEPT !.extracted_recipe = answer.recipe])
                     EXCEPT !.attempts = answer.attempts]
        ELSE Ret([s EXCEPT !.extracted_recipe = None])

\* a variant whose handler reports a total of 0 minutes instead of None
extract_cooking_time_node_zero_on_error(s, rag, agent) ==
    IF ~s.embedded_chunks.some
    THEN Ret([s EXCEPT !.total_cooking_minutes = Some(0)])
    ELSE LET text_segments == s.embedded_chunks.val.text_segments
             found == perform_rag_search(text_segments, TimeMaxResults, rag)
             time_related_segments == found.docs
             leaked == IF found.leaked THEN 1 ELSE 0
         IN  IF time_related_segments # <<>>
             THEN [Ret([s EXCEPT !.total_cooking_minutes =
                           extract_cooking_time_with_tools(time_related_segments, agent)])
                      EXCEPT !.agent_calls = 1, !.leaked = leaked,
                             !.found = Some(time_related_segments)]
             ELSE [Ret([s EXCEPT !.total_cooking_minutes = None])
                      EXCEPT !.leaked = leaked, !.found = Some(time_related_segments)]

\* extract_time: retrieval with the time query, then the agent on a truthy list
_extract_cooking_time_node(s, rag, agent) ==
    IF ~s.embedded_chunks.some
    THEN Ret([s EXCEPT !.total_cooking_minutes = None])
    ELSE LET text_segments == s.embedded_chunks.val.text_segments
             found == perform_rag_search(text_segments, TimeMaxResults, rag)
             time_related_segments == found.docs
             leaked == IF found.leaked THEN 1 ELSE 0
         IN  IF time_related_segments # <<>>
             THEN [Ret([s EXCEPT !.total_cooking_minutes =
                           extract_cooking_time_with_tools(time_related_segments, agent)])
                      EXCEPT !.agent_calls = 1, !.leaked = leaked,
                             !.found = Some(time_related_segments)]
             ELSE [Ret([s EXCEPT !.total_cooking_minutes = None])
                      EXCEPT !.leaked = leaked, !.found = Some(time_related_segments)]

\* a variant that reports a recipe and a total only when it has both
create_final_result_node_all_or_nothing(s) ==
    IF s.extracted_recipe.some /\ s.total_cooking_minutes.some
    THEN Ret([s EXCEPT !.final_result =
                 Some(RecipeExtractionResult(s.extracted_recipe, s.total_cooking_minutes))])
    ELSE Ret([s EXCEPT !.final_result = Some(RecipeExtractionResult(None, None))])

_create_final_result_node(s) ==
    Ret([s EXCEPT !.final_result =
            Some(RecipeExtractionResult(s.extracted_recipe, s.total_cooking_minutes))])

---------------------------------------------------------------------------
(* What a trace records, stated apart from the code that reads it *)

\* step i of the trace is a sum_minutes step whose message records a
\* sum_minutes tool call
RecordsSumCall(step) ==
    /\ step.tool = "sum_minutes"
    /\ step.message_log # <<>>
    /\ \E j \in 1..Len(step.message_log[1].tool_calls) :
           step.message_log[1].tool_calls[j].name = "sum_minutes"

\* the tool's argument list in a step that records the call
RecordedArgs(step) ==
    LET calls == step.message_log[1].tool_calls
        j == CHOOSE k \in 1..Len(calls) :
                 /\ calls[k].name = "sum_minutes"
                 /\ \A m \in 1..(k - 1) : calls[m].name # "sum_minutes"
    IN  calls[j].args

\* the sum_minutes calls the trace records, as <<step, position in the message>>
RecordedCalls(steps) ==
    UNION {{<<i, j>> : j \in {k \in 1..Len(steps[i].message_log[1].tool_calls) :
                                 steps[i].message_log[1].tool_calls[k].name = "sum_minutes"}} :
           i \in {n \in 1..Len(steps) : RecordsSumCall(steps[n])}}

\* what the agent run shows: the argument list of the first recorded
\* sum_minutes invocation (None without one), the length of the trace, the
\* model's own total, whether some observation disagrees with its arguments,
\* and whether a later recorded invocation has other arguments than the first
TraceFacts(agent_result) ==
    LET steps == agent_result.intermediate_steps
        recorded == {i \in 1..Len(steps) : RecordsSumCall(steps[i])}
        first == CHOOSE i \in recorded : \A k \in recorded : i <= k
    IN  [args |-> IF recorded = {} THEN None ELSE Some(RecordedArgs(steps[first])),
         steps |-> Len(steps),
         output |-> agent_result.output,
         wrong_observation |->
             \E i \in recorded : steps[i].observation # SumSeq(RecordedArgs(steps[i])),
         later_differs |->
             \E c \in RecordedCalls(steps) :
                 steps[c[1]].message_log[1].tool_calls[c[2]].args
                     # RecordedArgs(steps[first])]

\* what the extraction chain met, by the outcomes the attempts would have
ChainFacts(outcomes) ==
    CASE outcomes[1] = "ok" -> "valid_first"
      [] outcomes[1] = "other_error" -> "other_error_first"
      [] outcomes[1] = "OutputParserException" /\ outcomes[2] = "ok" -> "invalid_then_valid"
      [] \A i \in 1..Len(outcomes) : outcomes[i] = "OutputParserException" -> "all_invalid"
      [] OTHER -> "invalid_then_other"

---------------------------------------------------------------------------
(* The program: main, execute_langgraph_workflow and the compiled graph *)

\* a variant whose handler only logs and falls off the end of the function
on_exception_no_return == None

\* the handler of execute_langgraph_workflow: what it returns on any exception
on_exception_result == Some(RecipeExtractionResult(None, None))

\* the result read from the final state: final_state.get('final_result', default);
\* the key is always in the state, so the default is never used
returned_result(final_state) == final_state.final_result

\* a variant that wires not_recipe_finish into create_final_result
add_edge_rejoining(node) ==
    CASE node = "download_extract_pdf" -> "split_chunks"
      [] node = "split_chunks" -> "create_embeddings"
      [] node = "create_embeddings" -> "find_relevant_chunks"
      [] node = "find_relevant_chunks" -> "extract_recipe_entity"
      [] node = "extract_recipe_entity" -> "extract_cooking_time"
      [] node = "extract_cooking_time" -> "create_final_result"
      [] node = "create_final_result" -> "END"
      [] node = "not_recipe_finish" -> "create_final_result"

\* a variant with one edge wired past a node: split_chunks leads to
\* find_relevant_chunks
add_edge_skipping_embed(node) ==
    CASE node = "download_extract_pdf" -> "split_chunks"
      [] node = "split_chunks" -> "find_relevant_chunks"
      [] node = "create_embeddings" -> "find_relevant_chunks"
      [] node = "find_relevant_chunks" -> "extract_recipe_entity"
      [] node = "extract_recipe_entity" -> "extract_cooking_time"
      [] node = "extract_cooking_time" -> "create_final_result"
      [] node = "create_final_result" -> "END"
      [] node = "not_recipe_finish" -> "END"

\* add_edge: the node after each node
add_edge(node) ==
    CASE node = "download_extract_pdf" -> "split_chunks"
      [] node = "split_chunks" -> "create_embeddings"
      [] node = "create_embeddings" -> "find_relevant_chunks"
      [] node = "find_relevant_chunks" -> "extract_recipe_entity"
      [] node = "extract_recipe_entity" -> "extract_cooking_time"
      [] node = "extract_cooking_time" -> "create_final_result"
      [] node = "create_final_result" -> "END"
      [] node = "not_recipe_finish" -> "END"

\* add_conditional_edges: the node each label of the branch leads to
add_conditional_edges(label) ==
    IF label = "continue" THEN "download_extract_pdf" ELSE "not_recipe_finish"

NoHistory ==
    /\ executed = <<>>
    /\ route = ""
    /\ validate_failed = FALSE
    /\ chain_facts = None
    /\ final_writes = 0
    /\ chain_attempts = 0
    /\ agent_calls = 0
    /\ agent_facts = None
    /\ time_segments = None
    /\ failures = {}
    /\ live_indexes = 0

Init ==
    /\ pc = "main"
    /\ api_key \in BOOLEAN
    /\ state = initial_state(PdfUrl)
    /\ result = None
    /\ NoHistory


\* the engine runs node and moves to next; an exception a node lets escape
\* leaves app.invoke and is caught by execute_langgraph_workflow
RunNode(node, r) ==
    /\ executed' = Append(executed, node)
    /\ final_writes' = final_writes
                       + (IF ~r.raised /\ r.state.final_result # state.final_result
                          THEN 1 ELSE 0)
    /\ chain_attempts' = chain_attempts + r.attempts
    /\ agent_calls' = agent_calls + r.agent_calls
    /\ live_indexes' = live_indexes + r.leaked
    /\ IF r.raised
       THEN /\ pc' = "returned"
            /\ result' = on_exception_result
            /\ state' = state
       ELSE /\ pc' = IF node = "validate_recipe_pdf" THEN "conditional_edge"
                     ELSE add_edge(node)
            /\ result' = result
            /\ state' = r.state
    /\ UNCHANGED api_key

\* a variant that stores the key without testing it
init_without_check(openai_api_key) == "ok"

\* PdfRagApp.__init__: ValueError when the key read from the environment is
\* missing or empty
__init__(openai_api_key) == IF ~openai_api_key THEN "ValueError" ELSE "ok"

\* app = PdfRagApp() in main, outside its try: the ValueError leaves main
PdfRagApp_init ==
    /\ pc = "main"
    /\ pc' = IF __init__(api_key) = "ok"
             THEN "execute_langgraph_workflow"
             ELSE "config_error"
    /\ UNCHANGED <<api_key, state, result, executed, final_writes, chain_attempts,
                   agent_calls, live_indexes, history>>

\* execute_langgraph_workflow up to app.invoke: building or compiling the graph
\* may raise, which the outer handler turns into the empty result
execute_langgraph_workflow ==
    /\ pc = "execute_langgraph_workflow"
    /\ \E compiled \in BOOLEAN :
           IF compiled
           THEN /\ pc' = "validate_recipe_pdf"
                /\ state' = initial_state(PdfUrl)
                /\ result' = result
           ELSE /\ pc' = "returned"
                /\ state' = state
                /\ result' = on_exception_result
    /\ UNCHANGED <<api_key, executed, final_writes, chain_attempts, agent_calls,
                   live_indexes, history>>

validate_recipe_pdf ==
    /\ pc = "validate_recipe_pdf"
    /\ \E outcome \in ValidateOutcomes :
           /\ RunNode("validate_recipe_pdf", _validate_recipe_pdf_node(state, outcome))
           /\ validate_failed' = (outcome \in ValidateFailures)
    /\ UNCHANGED <<route, chain_facts, agent_facts, time_segments, failures>>

\* add_conditional_edges: the label _should_continue_processing returns picks the node
conditional_edge ==
    /\ pc = "conditional_edge"
    /\ route' = _should_continue_processing(state)
    /\ pc' = add_conditional_edges(route')
    /\ UNCHANGED <<api_key, state, result, executed, final_writes, chain_attempts,
                   agent_calls, live_indexes, validate_failed, chain_facts, agent_facts, time_segments,
                   failures>>

not_recipe_finish ==
    /\ pc = "not_recipe_finish"
    /\ RunNode("not_recipe_finish", _not_recipe_finish_node(state))
    /\ UNCHANGED history

download_extract_pdf ==
    /\ pc = "download_extract_pdf"
    /\ \E outcome \in DownloadOutcomes :
           /\ RunNode("download_extract_pdf", _download_extract_pdf_node(state, outcome))
           /\ failures' = failures \cup (IF outcome.ok THEN {} ELSE {"download_extract_pdf"})
    /\ UNCHANGED <<route, validate_failed, chain_facts, agent_facts, time_segments>>

split_chunks ==
    /\ pc = "split_chunks"
    /\ \E outcome \in SplitOutcomes :
           /\ RunNode("split_chunks", _split_chunks_node(state, outcome))
           /\ failures' = failures \cup (IF ~state.pdf_content.some \/ outcome # "ok"
                                          THEN {"split_chunks"} ELSE {})
    /\ UNCHANGED <<route, validate_failed, chain_facts, agent_facts, time_segments>>

\* the embed node fails on an absent document_chunks; the embedding call fails
\* when the request of one of the segments raises
create_embeddings ==
    /\ pc = "create_embeddings"
    /\ \E fail_at \in EmbedOutcomes :
           /\ RunNode("create_embeddings", _create_embeddings_node(state, fail_at))
           /\ failures' = failures \cup
                  (CASE ~state.document_chunks.some -> {"create_embeddings"}
                     [] fail_at \in 1..Len(state.document_chunks.val.text_segments) ->
                          {"embed_query"}
                     [] OTHER -> {})
    /\ UNCHANGED <<route, validate_failed, chain_facts, agent_facts, time_segments>>

\* retrieve_for_entity fails on an absent embedded_chunks; the retriever fails
\* inside perform_rag_search
find_relevant_chunks ==
    /\ pc = "find_relevant_chunks"
    /\ \E rag \in RagOutcomes :
           /\ RunNode("find_relevant_chunks", _find_relevant_chunks_node(state, rag))
           /\ failures' = failures \cup
                  (CASE ~state.embedded_chunks.some -> {"find_relevant_chunks"}
                     [] rag \in RagFailures -> {"entity_retriever"}
                     [] OTHER -> {})
    /\ UNCHANGED <<route, validate_failed, chain_facts, agent_facts, time_segments>>

extract_recipe_entity ==
    /\ pc = "extract_recipe_entity"
    /\ \E outcomes \in ChainOutcomeSeqs :
           LET r == _extract_recipe_entity_node(state, outcomes)
           IN  /\ RunNode("extract_recipe_entity", r)
               /\ chain_facts' = IF r.attempts > 0 THEN Some(ChainFacts(outcomes)) ELSE None
    /\ UNCHANGED <<route, validate_failed, agent_facts, time_segments, failures>>

extract_cooking_time ==
    /\ pc = "extract_cooking_time"
    /\ \E rag \in RagOutcomes, agent \in AgentOutcomes :
           LET r == _extract_cooking_time_node(state, rag, agent)
           IN  /\ RunNode("extract_cooking_time", r)
               /\ agent_facts' = IF r.agent_calls > 0 /\ agent.ok
                                 THEN Some(TraceFacts(agent.result))
                                 ELSE None
               /\ time_segments' = IF rag \in RagFailures THEN r.found ELSE None
               /\ failures' = failures \cup
                      (CASE ~state.embedded_chunks.some -> {"extract_cooking_time"}
                         [] rag \in RagFailures -> {"time_retriever"}
                         [] OTHER -> {})
    /\ UNCHANGED <<route, validate_failed, chain_facts>>

create_final_result ==
    /\ pc = "create_final_result"
    /\ RunNode("create_final_result", _create_final_result_node(state))
    /\ UNCHANGED history

\* execute_langgraph_workflow after app.invoke returned the final state
return_final_result ==
    /\ pc = "END"
    /\ pc' = "returned"
    /\ result' = returned_result(state)
    /\ UNCHANGED <<api_key, state, executed, final_writes, chain_attempts, agent_calls,
                   live_indexes, history>>

Next ==
    \/ PdfRagApp_init
    \/ execute_langgraph_workflow
    \/ validate_recipe_pdf
    \/ conditional_edge
    \/ not_recipe_finish
    \/ download_extract_pdf
    \/ split_chunks
    \/ create_embeddings
    \/ find_relevant_chunks
    \/ extract_recipe_entity
    \/ extract_cooking_time
    \/ create_final_result
    \/ return_final_result

Spec == Init /\ [][Next]_vars

\* the engine runs whatever is enabled until the run has returned: it is
\* single-threaded and every node returns
FairSpec == Spec /\ WF_vars(Next)

---------------------------------------------------------------------------
(* The branch decision, extract_entity and the two terminal nodes applied to  *)
(* any state                                                                 *)

AnyValidation ==
    {None} \cup {Some(PdfValidationResult(b, r)) : b \in BOOLEAN, r \in {"llm", "fallback"}}
AnyRecipe == {None, Some(RecipeOf(1))}
AnyMinutes == {None, Some(0), Some(30)}

AnyStates ==
    {[pdf_url |-> PdfUrl,
      validation_result |-> v,
      pdf_content |-> IF up[1] THEN Some(PdfContent(MaxSegments, MaxSegments)) ELSE None,
      document_chunks |->
          IF up[2] THEN Some(DocumentChunks(MaxSegments, Segments(MaxSegments))) ELSE None,
      embedded_chunks |->
          IF up[3] THEN Some(EmbeddedChunks(Segments(MaxSegments), <<>>)) ELSE None,
      recipe_relevant_segments |-> seg,
      extracted_recipe |-> rec,
      total_cooking_minutes |-> min,
      final_result |-> fin,
      error |-> err] :
        v \in AnyValidation,
        up \in [1..3 -> BOOLEAN],
        seg \in {None, Some(<<>>), Some(Segments(MaxSegments))},
        rec \in AnyRecipe,
        min \in AnyMinutes,
        fin \in {None, Some(RecipeExtractionResult(None, None)),
                 Some(RecipeExtractionResult(Some(RecipeOf(1)), Some(30)))},
        err \in {None, Some("earlier_error")}}

InitAny ==
    /\ pc \in {"conditional_edge", "not_recipe_finish", "extract_recipe_entity",
              "create_final_result"}
    /\ api_key = TRUE
    /\ state \in AnyStates
    /\ result = None
    /\ NoHistory

NextAny ==
    \/ conditional_edge
    \/ not_recipe_finish
    \/ extract_recipe_entity
    \/ create_final_result
    \/ return_final_result

SpecAny == InitAny /\ [][NextAny]_vars

---------------------------------------------------------------------------
(* Properties *)

TerminalNodes == {"create_final_result", "not_recipe_finish"}

ContinuePath ==
    <<"validate_recipe_pdf", "download_extract_pdf", "split_chunks", "create_embeddings",
      "find_relevant_chunks", "extract_recipe_entity", "extract_cooking_time",
      "create_final_result">>

\* the path of a rejected document
RejectPath == <<"validate_recipe_pdf", "not_recipe_finish">>

\* add_node: the nodes of the graph
Nodes == {ContinuePath[i] : i \in 1..Len(ContinuePath)} \cup {"not_recipe_finish"}

IsPrefix(s, t) == Len(s) <= Len(t) /\ \A i \in 1..Len(s) : s[i] = t[i]

LastExecuted == IF executed = <<>> THEN "" ELSE executed[Len(executed)]

TerminalsExecuted == Cardinality({i \in 1..Len(executed) : executed[i] \in TerminalNodes})

AllEmpty == Some(RecipeExtractionResult(None, None))

\* C1: the conditional edge routes on validation_result.is_recipe alone: from
\* any state with a validation result, the next node is download when is_recipe
\* is true and not_recipe_finish when it is false
C1_BranchOnIsRecipe ==
    [][(pc = "conditional_edge" /\ state.validation_result.some)
        => pc' = IF state.validation_result.val.is_recipe
                 THEN "download_extract_pdf"
                 ELSE "not_recipe_finish"]_vars

\* a rejected state that carries upstream data has been routed to not_recipe_finish
C1_Witness ==
    /\ route = "stop"
    /\ pc = "not_recipe_finish"
    /\ state.validation_result.some
    /\ ~state.validation_result.val.is_recipe
    /\ state.embedded_chunks.some
    /\ state.extracted_recipe.some

\* C2: a branch decision taken on a state without a validation result is
\* "continue"
C2_AbsentValidationContinues ==
    (route # "" /\ ~state.validation_result.some) => route = "continue"

\* C3: at most one terminal node executes and final_result changes at most
\* once, exactly when a terminal node runs; a run that reached END, or returned
\* after running nodes, has executed exactly one terminal node
C3_TerminalExclusivity ==
    /\ TerminalsExecuted <= 1
    /\ final_writes = TerminalsExecuted
    /\ state.final_result.some <=> final_writes = 1
    /\ (pc = "END" \/ (pc = "returned" /\ executed # <<>>)) => TerminalsExecuted = 1

\* a run that took the extraction path has ended with final_result written once
C3_Witness ==
    /\ pc = "END"
    /\ LastExecuted = "create_final_result"
    /\ final_writes = 1
    /\ state.final_result.some

\* C4: after not_recipe_finish, final_result is {None, None} whatever the other
\* fields hold
C4_RejectionPurity ==
    LastExecuted = "not_recipe_finish" => state.final_result = AllEmpty

\* not_recipe_finish has run on a state with a recipe and a total in it
C4_Witness ==
    /\ LastExecuted = "not_recipe_finish"
    /\ state.extracted_recipe.some
    /\ state.total_cooking_minutes.some
    /\ state.final_result = AllEmpty

\* C5: validate returns to the engine with validation_result present, so the
\* branch is only ever evaluated on a present validation result; when one of
\* its calls failed, is_recipe is true and the run goes to download, never to
\* not_recipe_finish
C5_ValidateFailsOpen ==
    /\ (pc = "conditional_edge" \/ route # "") => state.validation_result.some
    /\ executed = <<"validate_recipe_pdf">> => pc # "returned"
    /\ (validate_failed /\ executed # <<>>)
         => /\ state.validation_result.some
            /\ state.validation_result.val.is_recipe
            /\ route \in {"", "continue"}
            /\ pc # "not_recipe_finish"
            /\ \A i \in 1..Len(executed) : executed[i] # "not_recipe_finish"

\* a failed validation has been routed to download
C5_Witness ==
    /\ validate_failed
    /\ route = "continue"
    /\ pc = "download_extract_pdf"

\* C6: every run that takes the "continue" branch reaches END having executed
\* every node of the extraction path in order, whatever fails on the way
C6_NoFailureHalts ==
    (pc = "download_extract_pdf") ~> (pc = "END" /\ executed = ContinuePath)

\* a run in which download failed, and every node after it with it, is at END
C6_Witness ==
    /\ pc = "END"
    /\ executed = ContinuePath
    /\ state.error.some
    /\ ~state.pdf_content.some
    /\ ~state.embedded_chunks.some
    /\ state.final_result = AllEmpty

\* C7: what execute_langgraph_workflow returns is a result record: the final
\* state's final_result when the graph ran to a terminal node, and {None, None}
\* when an exception escaped
C7_AlwaysReturnsResult ==
    pc = "returned"
      => /\ result.some
         /\ IF LastExecuted \in TerminalNodes
            THEN result = state.final_result
            ELSE result = AllEmpty

\* building the graph raised and the empty record was returned
C7_Witness ==
    /\ pc = "returned"
    /\ executed = <<>>
    /\ result = AllEmpty

\* C8: when the agent's trace records a sum_minutes invocation,
\* total_cooking_minutes is the sum of that invocation's argument list
C8_ToolSumFidelity ==
    (agent_facts.some /\ agent_facts.val.args.some)
      => state.total_cooking_minutes = Some(SumSeq(agent_facts.val.args.val))

\* arguments [10, 15, 5] gave 30 although the model answered 45 and the recorded
\* observation disagrees
C8_Witness ==
    /\ agent_facts.some
    /\ agent_facts.val.args = Some(<<10, 15, 5>>)
    /\ agent_facts.val.output = 45
    /\ agent_facts.val.wrong_observation
    /\ state.total_cooking_minutes = Some(30)

\* C9: when the agent returns a trace that records no sum_minutes invocation,
\* total_cooking_minutes is None and the run goes on to finalize
C9_NoToolCallGivesNone ==
    (agent_facts.some /\ ~agent_facts.val.args.some)
      => /\ state.total_cooking_minutes = None
         /\ pc \in {"create_final_result", "END", "returned"}
         /\ pc # "create_final_result" => LastExecuted = "create_final_result"

\* a trace with steps but no recorded invocation, and the run is at END
C9_Witness ==
    /\ agent_facts.some
    /\ ~agent_facts.val.args.some
    /\ agent_facts.val.steps > 0
    /\ state.total_cooking_minutes = None
    /\ pc = "END"

\* C10: the extraction chain is attempted at most twice per run; an invalid
\* first attempt followed by a valid second one yields the second attempt's
\* recipe, and attempts that are all invalid yield None after exactly 2 attempts
C10_RetryBound ==
    /\ chain_attempts <= 2
    /\ chain_facts = Some("invalid_then_valid")
         => /\ state.extracted_recipe = Some(RecipeOf(2))
            /\ chain_attempts = 2
    /\ chain_facts = Some("all_invalid")
         => /\ state.extracted_recipe = None
            /\ chain_attempts = 2

\* every attempt was invalid and the chain stopped after the second
C10_Witness ==
    /\ chain_facts = Some("all_invalid")
    /\ chain_attempts = 2
    /\ state.extracted_recipe = None
    /\ LastExecuted = "extract_recipe_entity"

\* C11: when the first attempt of the extraction chain fails with an error
\* other than a schema-validation failure, no second attempt is made and
\* extracted_recipe is None; the same error on the second attempt, after an
\* invalid first one, also ends with None
C11_RetryOnlyOnSchemaFailure ==
    /\ chain_facts = Some("other_error_first")
         => /\ chain_attempts = 1
            /\ state.extracted_recipe = None
    /\ chain_facts = Some("invalid_then_other")
         => /\ chain_attempts = 2
            /\ state.extracted_recipe = None

\* the first attempt met a transport error and the node returned None after
\* that one attempt
C11_Witness ==
    /\ chain_facts = Some("other_error_first")
    /\ chain_attempts = 1
    /\ state.extracted_recipe = None
    /\ Truthy(state.recipe_relevant_segments)
    /\ LastExecuted = "extract_recipe_entity"

\* C12: extract_entity run on a state whose recipe_relevant_segments is empty
\* or absent returns the state with extracted_recipe = None and nothing else
\* changed, and makes no attempt of the extraction chain
C12_EmptySegmentsSkipExtractor ==
    [][(pc = "extract_recipe_entity" /\ ~Truthy(state.recipe_relevant_segments))
        => /\ state' = [state EXCEPT !.extracted_recipe = None]
           /\ chain_attempts' = chain_attempts
           /\ chain_facts' = None
           /\ pc' = "extract_cooking_time"]_vars

\* extract_entity has run on an empty list and made no attempt
C12_Witness ==
    /\ LastExecuted = "extract_recipe_entity"
    /\ state.recipe_relevant_segments = Some(<<>>)
    /\ state.extracted_recipe = None
    /\ chain_attempts = 0
    /\ chain_facts = None

\* C13 as stated: after retrieve_for_entity has run on a state whose
\* embedded_chunks is absent, recipe_relevant_segments holds an empty list
C13_AbsentEmbeddingsStoreEmptyList ==
    (LastExecuted = "find_relevant_chunks" /\ ~state.embedded_chunks.some)
      => /\ state.recipe_relevant_segments = Some(<<>>)
         /\ pc = "extract_recipe_entity"

\* C13 as amended: retrieve_for_entity run on a state whose embedded_chunks is
\* absent does not raise and creates no index: it records the attribute error
\* in error, changes no other field (recipe_relevant_segments stays as it was)
\* and hands over to extract_entity
C13_AbsentEmbeddingsRecordError ==
    [][(pc = "find_relevant_chunks" /\ ~state.embedded_chunks.some)
        => /\ state' = [state EXCEPT !.error = Some(NoAttribute("text_segments"))]
           /\ live_indexes' = live_indexes
           /\ pc' = "extract_recipe_entity"]_vars

\* retrieve_for_entity has run without embedded_chunks: the segments are still
\* absent, not empty, and error is set
C13_Witness ==
    /\ LastExecuted = "find_relevant_chunks"
    /\ ~state.embedded_chunks.some
    /\ state.recipe_relevant_segments = None
    /\ state.error = Some(NoAttribute("text_segments"))
    /\ pc = "extract_recipe_entity"

\* C14: finalize run on any state writes a final_result whose two fields are
\* the extracted_recipe and the total_cooking_minutes of that state, present or
\* absent, leaves every other field as it was and hands over to END
C14_FinalizePair ==
    [][pc = "create_final_result"
        => /\ state'.final_result.some
           /\ state'.final_result.val.extracted_recipe = state.extracted_recipe
           /\ state'.final_result.val.total_cooking_minutes = state.total_cooking_minutes
           /\ \A f \in DOMAIN state \ {"final_result"} : state'[f] = state[f]
           /\ pc' = "END"]_vars

\* finalize has run on a state with a total but no recipe and kept both as
\* they were
C14_Witness ==
    /\ LastExecuted = "create_final_result"
    /\ state.extracted_recipe = None
    /\ state.total_cooking_minutes = Some(30)
    /\ state.final_result = Some(RecipeExtractionResult(None, Some(30)))
    /\ state.error.some

\* C15: without the API key the program never gets past main: it ends in the
\* configuration error with the workflow not built, no node executed, the state
\* untouched and no result returned; with the key it never ends there
C15_MissingKeyAborts ==
    /\ ~api_key
         => /\ pc \in {"main", "config_error"}
            /\ executed = <<>>
            /\ state = initial_state(PdfUrl)
            /\ result = None
    /\ pc = "config_error" => ~api_key

\* the program has aborted on the missing key
C15_Witness ==
    /\ ~api_key
    /\ pc = "config_error"
    /\ executed = <<>>
    /\ result = None

\* C16: when download, split or embed has just run and failed, error is set and
\* the node's own output field is absent; a failure of the embedding call
\* inside embed counts as a failure of embed
C16_FailureSetsError ==
    /\ (LastExecuted = "download_extract_pdf" /\ "download_extract_pdf" \in failures)
         => (state.error.some /\ ~state.pdf_content.some)
    /\ (LastExecuted = "split_chunks" /\ "split_chunks" \in failures)
         => (state.error.some /\ ~state.document_chunks.some)
    /\ (LastExecuted = "create_embeddings"
           /\ failures \cap {"create_embeddings", "embed_query"} # {})
         => (state.error.some /\ ~state.embedded_chunks.some)

\* the pairs of every segment but segment k, in input order
PairsWithout(text_segments, k) ==
    [i \in 1..(Len(text_segments) - 1) |->
        LET chunk == text_segments[IF i < k THEN i ELSE i + 1]
        IN  ChunkEmbedding(chunk, chunk)]

\* C17: chunk_embeddings is never longer than the segment list, and when the
\* embedding request of one segment has failed it holds the pairs of all the
\* other segments, in input order
C17_SingleFailureDropsOneChunk ==
    (LastExecuted = "create_embeddings" /\ state.embedded_chunks.some)
      => LET text_segments == state.embedded_chunks.val.text_segments
             chunk_embeddings == state.embedded_chunks.val.chunk_embeddings
         IN  /\ Len(chunk_embeddings) <= Len(text_segments)
             /\ "embed_query" \in failures
                  => \E k \in 1..Len(text_segments) :
                         chunk_embeddings = PairsWithout(text_segments, k)

\* C18: no retrieval call leaves the collection it created behind: whenever a
\* retrieval has returned, successfully or through its handler, every collection
\* created so far has been deleted
C18_IndexReleased ==
    live_indexes = 0

\* C19 as stated: whenever the split node is about to run, pdf_content is
\* present
C19_PdfContentPresentAtSplit ==
    pc = "split_chunks" => state.pdf_content.some

\* C19 as amended: when the split node is about to run, pdf_content is present
\* exactly if download succeeded; after a failed download it is absent and
\* error is set, and split then records its own error and leaves
\* document_chunks absent
C19_PdfContentPresentIffDownloaded ==
    /\ pc = "split_chunks"
         => /\ state.pdf_content.some <=> "download_extract_pdf" \notin failures
            /\ ~state.pdf_content.some => state.error.some
    /\ (LastExecuted = "split_chunks" /\ ~state.pdf_content.some)
         => /\ state.error = Some(NoAttribute("pdf_bytes"))
            /\ ~state.document_chunks.some

\* download failed and the split node is about to run without pdf_content
C19_Witness ==
    /\ pc = "split_chunks"
    /\ "download_extract_pdf" \in failures
    /\ ~state.pdf_content.some
    /\ state.error.some

\* C20: the nodes executed so far are an initial part of one of the two paths
\* (validate, not_recipe_finish) or (validate, download, split, embed,
\* retrieve_for_entity, extract_entity, extract_time, finalize), the one the
\* branch chose, so no node runs twice; the node about to run is the next one
\* of that path, which only its predecessor's return makes current; and once
\* a terminal node has run the engine is at END or has returned
C20_SinglePathInOrder ==
    /\ IsPrefix(executed, ContinuePath) \/ IsPrefix(executed, RejectPath)
    /\ route = "continue" => IsPrefix(executed, ContinuePath)
    /\ route = "stop" => IsPrefix(executed, RejectPath)
    /\ pc \in Nodes
         => \E path \in {ContinuePath, RejectPath} :
                /\ IsPrefix(executed, path)
                /\ Len(executed) < Len(path)
                /\ path[Len(executed) + 1] = pc
    /\ pc = "END" => executed \in {ContinuePath, RejectPath}
    /\ TerminalsExecuted > 0
         => /\ pc \in {"END", "returned"}
            /\ LastExecuted \in TerminalNodes

\* a run has gone through the whole extraction path and returned
C20_Witness ==
    /\ pc = "returned"
    /\ route = "continue"
    /\ executed = ContinuePath
    /\ result.some

\* the field the data model assigns to each node
OwnedField(node) ==
    CASE node = "validate_recipe_pdf" -> "validation_result"
      [] node = "not_recipe_finish" -> "final_result"
      [] node = "download_extract_pdf" -> "pdf_content"
      [] node = "split_chunks" -> "document_chunks"
      [] node = "create_embeddings" -> "embedded_chunks"
      [] node = "find_relevant_chunks" -> "recipe_relevant_segments"
      [] node = "extract_recipe_entity" -> "extracted_recipe"
      [] node = "extract_cooking_time" -> "total_cooking_minutes"
      [] node = "create_final_result" -> "final_result"

\* C21: a step of a node leaves every field of the state but the node's own
\* field and error as it was, no other step changes the state at all, and
\* pdf_url never changes
C21_FrameEffect ==
    [][/\ state'.pdf_url = state.pdf_url
       /\ pc \in Nodes
            => \A f \in DOMAIN state \ {OwnedField(pc), "error"} : state'[f] = state[f]
       /\ pc \notin Nodes => state' = state]_vars

\* extract_time has written its total into a state that holds a recipe, the
\* upstream data and the original url
C21_Witness ==
    /\ LastExecuted = "extract_cooking_time"
    /\ state.total_cooking_minutes.some
    /\ state.extracted_recipe.some
    /\ state.embedded_chunks.some
    /\ state.validation_result.some
    /\ state.pdf_url = PdfUrl

\* the nodes that write error
ErrorWriters ==
    {"download_extract_pdf", "split_chunks", "create_embeddings", "find_relevant_chunks"}

\* the failures of download, split, embed (its embedding call included) and
\* retrieve_for_entity
ErrorWriterFailures == ErrorWriters \cup {"embed_query"}

\* C22: error, once set, stays set; only a step of download, split, embed or
\* retrieve_for_entity changes it; and when the run reaches END, error is None
\* exactly if none of those four nodes has failed
C22_ErrorSetOnlyByFourNodes ==
    [][/\ state.error.some => state'.error.some
       /\ state'.error # state.error => pc \in ErrorWriters
       /\ pc' = "END"
            => (state'.error = None <=> failures' \cap ErrorWriterFailures = {})]_vars

\* C23: once download has failed, pdf_content, document_chunks,
\* embedded_chunks and recipe_relevant_segments stay None in every later state,
\* no retrieval, no attempt of the extraction chain and no agent invocation is
\* made, no recipe or total appears, and the run reaches END only through
\* finalize, having run the whole path, with final_result = {None, None} and
\* error set, which is also what is returned
C23_DownloadFailureCascade ==
    "download_extract_pdf" \in failures
      => /\ ~state.pdf_content.some
         /\ ~state.document_chunks.some
         /\ ~state.embedded_chunks.some
         /\ ~state.recipe_relevant_segments.some
         /\ ~state.extracted_recipe.some
         /\ ~state.total_cooking_minutes.some
         /\ state.error.some
         /\ chain_attempts = 0
         /\ agent_calls = 0
         /\ failures \cap {"entity_retriever", "time_retriever", "embed_query"} = {}
         /\ pc \in {"END", "returned"}
              => /\ executed = ContinuePath
                 /\ state.final_result = AllEmpty
         /\ pc = "returned" => result = AllEmpty

\* a run whose download failed has gone through every node and ended at
\* finalize with the empty result and the error of the last node that failed
C23_Witness ==
    /\ "download_extract_pdf" \in failures
    /\ pc = "END"
    /\ LastExecuted = "create_final_result"
    /\ failures = {"download_extract_pdf", "split_chunks", "create_embeddings",
                   "find_relevant_chunks", "extract_cooking_time"}
    /\ state.final_result = AllEmpty
    /\ state.error = Some(NoAttribute("text_segments"))

\* the first k elements of s, in order
FirstK(s, k) == [i \in 1..(IF Len(s) < k THEN Len(s) ELSE k) |-> s[i]]

\* C24: a retriever failure on a present segment set fails neither retrieval
\* node and sets no error: retrieve_for_entity stores the first 5 input
\* segments in input order and extract_time works on the first 3; the
\* extractor and the agent then run on them when there are any; and
\* recipe_relevant_segments never holds more than 5 segments
C24_RetrieverFailureFallsBack ==
    /\ state.recipe_relevant_segments.some
         => Len(state.recipe_relevant_segments.val) <= 5
    /\ "entity_retriever" \in failures
         => /\ state.embedded_chunks.some
            /\ state.recipe_relevant_segments =
                   Some(FirstK(state.embedded_chunks.val.text_segments, 5))
            /\ state.error = None
            /\ pc # "returned" \/ LastExecuted \in TerminalNodes
            /\ (Len(executed) >= 6 /\ state.embedded_chunks.val.text_segments # <<>>)
                 => chain_attempts >= 1
    /\ "time_retriever" \in failures
         => /\ state.embedded_chunks.some
            /\ time_segments = Some(FirstK(state.embedded_chunks.val.text_segments, 3))
            /\ state.error = None
            /\ pc # "returned" \/ LastExecuted \in TerminalNodes
            /\ agent_calls = IF state.embedded_chunks.val.text_segments # <<>> THEN 1 ELSE 0

\* both retrievals failed on a document of 6 segments: the entity retrieval
\* stored the first 5, the time retrieval handed the first 3 to the agent, and
\* the extractor ran
C24_Witness ==
    /\ failures = {"entity_retriever", "time_retriever"}
    /\ state.embedded_chunks.some
    /\ Len(state.embedded_chunks.val.text_segments) = 6
    /\ state.recipe_relevant_segments = Some(<<1, 2, 3, 4, 5>>)
    /\ time_segments = Some(<<1, 2, 3>>)
    /\ chain_attempts >= 1
    /\ agent_calls = 1
    /\ state.error = None
    /\ pc = "END"

\* C25: a first recorded sum_minutes invocation with an empty argument list
\* gives total_cooking_minutes = 0, a present value; when later invocations
\* with other arguments are recorded the total is still the sum of the first
\* one's arguments; and once extract_time has run, total_cooking_minutes is
\* None only if the agent was not run, raised, or returned a trace from which
\* no sum_minutes invocation is recovered
C25_EmptyArgsGiveZeroFirstWins ==
    /\ (agent_facts.some /\ agent_facts.val.args = Some(<<>>))
         => state.total_cooking_minutes = Some(0)
    /\ (agent_facts.some /\ agent_facts.val.later_differs)
         => state.total_cooking_minutes = Some(SumSeq(agent_facts.val.args.val))
    /\ (Len(executed) >= 7 /\ state.total_cooking_minutes = None)
         => \/ agent_calls = 0
            \/ ~agent_facts.some
            \/ ~agent_facts.val.args.some

\* the message recorded a call without minutes and then one with 10, 15 and 5:
\* the total is 0, not None and not 30
C25_Witness ==
    /\ agent_facts.some
    /\ agent_facts.val.args = Some(<<>>)
    /\ agent_facts.val.later_differs
    /\ state.total_cooking_minutes = Some(0)
    /\ pc = "END"
    /\ state.final_result.val.total_cooking_minutes = Some(0)

=============================================================================
